---- MODULE Spec2Model ----
(***************************************************************************)
(* Model of the TTS service of src/tts: the lazily initialised engine     *)
(* registry (get_kokoro_model / get_supertonic_model), the request        *)
(* dispatch of text_to_speech, the voice catalog of voices.py and the     *)
(* shutdown coordination (signal_handler, lifespan, shutdown_middleware). *)
(*                                                                         *)
(* Scheduling.  Every endpoint is an `async def`, so all handlers run on  *)
(* the one asyncio event loop of the main thread: a handler keeps the     *)
(* loop (running = r) from its first statement to its next real           *)
(* suspension point.  The Python signal handler runs on the main thread   *)
(* between two bytecodes of whatever is executing there, and the          *)
(* delayed_exit thread started by it runs beside the main thread.         *)
(***************************************************************************)
EXTENDS Integers, Sequences, FiniteSets, TLC

(* ------------------------------ bounds -------------------------------- *)
\* number of HTTP requests the clients send during the life of the process
MaxReq == 2

Req == 1..MaxReq

\* number of those requests when the clients leave fields out or put the
\* body fields at their limits (FieldInputs)
MaxFieldReq == 1

(* --------------------------- voices.py -------------------------------- *)
SUPERTONIC_VOICES ==
    << [name |-> "M1", language |-> "en", gender |-> "male"],
       [name |-> "M2", language |-> "en", gender |-> "male"],
       [name |-> "M3", language |-> "en", gender |-> "male"],
       [name |-> "M4", language |-> "en", gender |-> "male"],
       [name |-> "M5", language |-> "en", gender |-> "male"],
       [name |-> "F1", language |-> "en", gender |-> "female"],
       [name |-> "F2", language |-> "en", gender |-> "female"],
       [name |-> "F3", language |-> "en", gender |-> "female"],
       [name |-> "F4", language |-> "en", gender |-> "female"],
       [name |-> "F5", language |-> "en", gender |-> "female"] >>

KOKORO_VOICES ==
    << [name |-> "af_heart", language |-> "en", gender |-> "female"],
       [name |-> "af_bella", language |-> "en", gender |-> "female"],
       [name |-> "af_nicole", language |-> "en", gender |-> "female"],
       [name |-> "af_sarah", language |-> "en", gender |-> "female"],
       [name |-> "af_amber", language |-> "en", gender |-> "female"],
       [name |-> "am_adam", language |-> "en", gender |-> "male"],
       [name |-> "am_michael", language |-> "en", gender |-> "male"],
       [name |-> "am_john", language |-> "en", gender |-> "male"],
       [name |-> "bf_emma", language |-> "en", gender |-> "female"],
       [name |-> "bf_olivia", language |-> "en", gender |-> "female"],
       [name |-> "bm_lewis", language |-> "en", gender |-> "male"],
       [name |-> "bm_james", language |-> "en", gender |-> "male"],
       [name |-> "jf_nanako", language |-> "ja", gender |-> "female"],
       [name |-> "jf_akari", language |-> "ja", gender |-> "female"],
       [name |-> "jm_hayato", language |-> "ja", gender |-> "male"],
       [name |-> "jm_daichi", language |-> "ja", gender |-> "male"],
       [name |-> "kf_minji", language |-> "ko", gender |-> "female"],
       [name |-> "kf_soyeon", language |-> "ko", gender |-> "female"],
       [name |-> "km_junho", language |-> "ko", gender |-> "male"],
       [name |-> "km_sung", language |-> "ko", gender |-> "male"],
       [name |-> "zf_xiaoxiao", language |-> "zh", gender |-> "female"],
       [name |-> "zf_xiaowan", language |-> "zh", gender |-> "female"],
       [name |-> "zm_xiaoyu", language |-> "zh", gender |-> "male"],
       [name |-> "zm_yunxi", language |-> "zh", gender |-> "male"],
       [name |-> "ef_carmen", language |-> "es", gender |-> "female"],
       [name |-> "ef_rosa", language |-> "es", gender |-> "female"],
       [name |-> "em_carlos", language |-> "es", gender |-> "male"],
       [name |-> "em_juan", language |-> "es", gender |-> "male"],
       [name |-> "ff_léa", language |-> "fr", gender |-> "female"],
       [name |-> "ff_marie", language |-> "fr", gender |-> "female"],
       [name |-> "fm_bruno", language |-> "fr", gender |-> "male"],
       [name |-> "fm_jean", language |-> "fr", gender |-> "male"],
       [name |-> "gf_anna", language |-> "de", gender |-> "female"],
       [name |-> "gf_birgitta", language |-> "de", gender |-> "female"],
       [name |-> "gm_lars", language |-> "de", gender |-> "male"],
       [name |-> "gm_markus", language |-> "de", gender |-> "male"],
       [name |-> "if_giulia", language |-> "it", gender |-> "female"],
       [name |-> "if_paola", language |-> "it", gender |-> "female"],
       [name |-> "im_marco", language |-> "it", gender |-> "male"],
       [name |-> "im_stefano", language |-> "it", gender |-> "male"],
       [name |-> "pf_helena", language |-> "pt", gender |-> "female"],
       [name |-> "pf_fernanda", language |-> "pt", gender |-> "female"],
       [name |-> "pm_paulo", language |-> "pt", gender |-> "male"],
       [name |-> "pm_sergio", language |-> "pt", gender |-> "male"] >>

Range(s) == {s[i] : i \in DOMAIN s}

get_voices_by_model(model) ==
    IF model = "supertonic" THEN SUPERTONIC_VOICES
    ELSE IF model = "kokoro" THEN KOKORO_VOICES
    ELSE << >>

get_default_voice(model) ==
    IF model = "supertonic" THEN "F1" ELSE "af_heart"

\* a name list that would know one catalog only
get_voice_names_kokoro(model) ==
    [i \in DOMAIN KOKORO_VOICES |-> KOKORO_VOICES[i].name]

get_voice_names(model) ==
    [i \in DOMAIN get_voices_by_model(model) |-> get_voices_by_model(model)[i].name]

is_valid_voice_any(voice_name, model) == TRUE

is_valid_voice(voice_name, model) ==
    voice_name \in Range(get_voice_names(model))

(* ---------------------- supertonic_wrapper.py ------------------------- *)
\* a voice list of the male voices only
VOICE_LIST_male == << "M1", "M2", "M3", "M4", "M5" >>

\* VOICE_LIST = [M1..M5] + [F1..F5]
VOICE_LIST ==
    << "M1", "M2", "M3", "M4", "M5", "F1", "F2", "F3", "F4", "F5" >>

(* ------------------------------ main.py ------------------------------- *)
ALLOWED_MODEL_FAMILIES == << "kokoro", "supertonic" >>

\* main.py:103-105
model_patterns ==
    << "model.onnx", "kokoro-v1.0.fp16.onnx", "kokoro-v1.0.onnx", "kokoro.onnx",
       "model_quantized.onnx" >>
voice_patterns == << "voices-v1.0.bin", "voices.bin" >>

\* main.py:117-119: kokoro_dir, "/app/models" and os.getcwd()
kokoro_dir == "assets/kokoro"
search_dirs == << kokoro_dir, "/app/models", "cwd" >>

\* main.py:152-153: the files find_model_files downloads by default
KokoroFiles == {"model.onnx", "voices-v1.0.bin"}

\* The listing of every searched directory: a directory that does not exist
\* is skipped by main.py:123 and lists nothing here.  InPlace is the default
\* files in kokoro_dir, Nowhere is no file at all.
InPlace == [d \in Range(search_dirs) |-> IF d = kokoro_dir THEN KokoroFiles ELSE {}]
Nowhere == [d \in Range(search_dirs) |-> {}]

\* model_name and voice_name are None
NotFound == [dir |-> "", name |-> ""]

\* main.py:112: TTS_MODEL_FILE.strip().strip("\"") and os.path.basename, on
\* the values of ModelFileInputs
strip(text) == IF text = " " THEN "" ELSE text
basename(path) == IF path = "/opt/models/kokoro.onnx" THEN "kokoro.onnx" ELSE path

\* main.py:109-113: requested_model, "" for None
requested_model_of(model_file) ==
    IF model_file = "" THEN "" ELSE basename(strip(model_file))

\* main.py:122-145: the first directory of dirs that lists one of the
\* patterns, and the first of the patterns it lists
first_found(dirs, patterns, listing) ==
    LET lists(i) == {j \in DOMAIN patterns : patterns[j] \in listing[dirs[i]]}
        hits == {i \in DOMAIN dirs : lists(i) # {}}
    IN  IF hits = {} THEN NotFound
        ELSE LET i == CHOOSE a \in hits : \A b \in hits : a <= b
                 j == CHOOSE a \in lists(i) : \A b \in lists(i) : a <= b
             IN  [dir |-> dirs[i], name |-> patterns[j]]

\* The execution providers of onnxruntime that matter to main.py, in the
\* priority order get_available_providers lists them in.
provider_priority ==
    << "TensorrtExecutionProvider", "CUDAExecutionProvider",
       "CoreMLExecutionProvider", "CPUExecutionProvider" >>

\* main.py:252: the options of the CUDA provider
cuda_options == {<< "cudnn_conv_algo_search", "EXHAUSTIVE" >>}

\* a provider of the list given to InferenceSession: a bare name has no options
Provider(name, options) == [name |-> name, options |-> options]

\* a selection that would leave the list as the runtime gives it
select_providers_unfiltered(providers) ==
    [i \in DOMAIN providers |->
        IF providers[i] = "CUDAExecutionProvider"
        THEN Provider(providers[i], cuda_options)
        ELSE Provider(providers[i], {})]

\* main.py:245-253: TensorRT is removed, CUDA gets its options
select_providers(providers) ==
    LET filtered == SelectSeq(providers,
                        LAMBDA provider : provider # "TensorrtExecutionProvider")
    IN  IF "CUDAExecutionProvider" \in Range(filtered)
        THEN [i \in DOMAIN filtered |->
                 IF filtered[i] # "CUDAExecutionProvider"
                 THEN Provider(filtered[i], {})
                 ELSE Provider("CUDAExecutionProvider", cuda_options)]
        ELSE [i \in DOMAIN filtered |-> Provider(filtered[i], {})]

\* the fallback of main.py:48
FALLBACK_TTS_MODEL == "kokoro"

\* main.py:42-48: the configured family, "unset" when the environment has no
\* TTS_DEFAULT_MODEL; a value outside the allowed families is replaced
default_tts_model_unchecked(env) ==
    IF env = "unset" THEN "supertonic" ELSE env

default_tts_model(env) ==
    LET configured == IF env = "unset" THEN "supertonic" ELSE env IN
    IF configured \notin Range(ALLOWED_MODEL_FAMILIES)
    THEN FALLBACK_TTS_MODEL
    ELSE configured

\* SpeechRequest, main.py:356 and 361: the length limits of `input` and the
\* limits and the default of `speed`, speed counted in tenths
input_min_length == 1
input_max_length == 4096
speed_ge == 5
speed_le == 20
speed_default == 10

(* ------------------------- request inputs ----------------------------- *)
\* What the engine returns for the text of a request is fixed by the text, so
\* a request carries it as `audio`: the samples in quarters (4 stands for the
\* sample 1.0).  The plain text gives two samples, 0.5 and -0.5.
PlainAudio == << 2, -2 >>

Endpoints == {"speech", "health", "voices", "languages", "root"}
ModelInputs == {"kokoro", "supertonic", "bogus"}
VoiceInputs == {"af_heart", "F1", "nope"}
FormatInputs == {"wav", "mp3"}

\* The requests a client can send.  Only /v1/audio/speech reads voice and
\* response_format, only /health and / ignore model.
RequestInputs ==
    { [endpoint |-> e, model |-> m, voice |-> v, response_format |-> f,
       input |-> input_min_length, speed |-> speed_default, audio |-> PlainAudio] :
        e \in Endpoints, m \in ModelInputs, v \in VoiceInputs, f \in FormatInputs }

\* The fields an endpoint never reads keep one value.  The listings are asked
\* for one allowed model and for one that is not; a format other than wav
\* comes with the default voice and with those two models; a model outside
\* the allowed families comes with the default voice.
Relevant(q) ==
    /\ q.endpoint # "speech" => q.voice = "af_heart" /\ q.response_format = "wav"
    /\ q.endpoint \in {"health", "root"} => q.model = "supertonic"
    /\ q.endpoint \in {"voices", "languages"} => q.model # "supertonic"
    /\ q.response_format # "wav" => q.voice = "af_heart" /\ q.model # "supertonic"
    /\ q.model = "bogus" => q.voice = "af_heart"

NamesOf(catalog) == {catalog[i].name : i \in DOMAIN catalog}

\* voice names asked about: every name of the two catalogs and of the engine's
\* voice list, the voices the clients send, and strings that are no name
VoiceStrings ==
    NamesOf(KOKORO_VOICES) \cup NamesOf(SUPERTONIC_VOICES) \cup Range(VOICE_LIST)
    \cup VoiceInputs
    \cup {"", "AF_HEART", "f1", "af_heart ", "en-us", "female", "kokoro", "omitted"}

\* models asked about: the allowed families and strings that are none
ModelStrings == ModelInputs \cup {"", "Kokoro", "SUPERTONIC", "none"}

\* One request with any of those strings as its model and its voice: a speech
\* request, or a request to another route, which reads no voice.
VoiceProbes ==
    { [endpoint |-> "speech", model |-> m, voice |-> v,
       response_format |-> "wav", input |-> input_min_length,
       speed |-> speed_default, audio |-> PlainAudio] : m \in ModelStrings, v \in VoiceStrings }
    \cup
    { [endpoint |-> e, model |-> m, voice |-> "af_heart",
       response_format |-> "wav", input |-> input_min_length,
       speed |-> speed_default, audio |-> PlainAudio] : e \in Endpoints \ {"speech"}, m \in ModelStrings }

\* The requests of clients that leave `model` or `voice` out ("omitted") or
\* send `input` and `speed` at and beside their limits (`input` is kept as its
\* length), next to one plain request per route and backend.
FieldInputs ==
    { [endpoint |-> "speech", model |-> m, voice |-> "omitted",
       response_format |-> "wav", input |-> input_min_length,
       speed |-> speed_default, audio |-> PlainAudio] : m \in {"omitted", "kokoro", "supertonic"} }
    \cup
    { [endpoint |-> "speech", model |-> "kokoro", voice |-> "af_heart",
       response_format |-> "wav", input |-> i, speed |-> speed_default, audio |-> PlainAudio] :
        i \in {input_min_length - 1, input_min_length,
               input_max_length, input_max_length + 1} }
    \cup
    { [endpoint |-> "speech", model |-> "kokoro", voice |-> "af_heart",
       response_format |-> "wav", input |-> input_min_length, speed |-> s, audio |-> PlainAudio] :
        s \in {speed_ge - 1, speed_ge, speed_le, speed_le + 1} }
    \cup
    { [endpoint |-> "speech", model |-> "supertonic", voice |-> "F1",
       response_format |-> "wav", input |-> input_max_length,
       speed |-> speed_le, audio |-> PlainAudio] }
    \cup
    { [endpoint |-> e, model |-> "omitted", voice |-> "omitted",
       response_format |-> "wav", input |-> input_min_length,
       speed |-> speed_default, audio |-> PlainAudio] : e \in Endpoints \ {"speech"} }

NoRequest ==
    [endpoint |-> "none", model |-> "none", voice |-> "none",
     response_format |-> "none", input |-> 0, speed |-> 0, audio |-> << >>,
     omitted |-> {}, pc |-> "new", status |-> 0, tts_model |-> 0, body |-> << >>,
     files |-> [model |-> NotFound, voices |-> NotFound]]

VARIABLES
    requests,                \* per request: its fields, position, response status, local tts_model
    running,                 \* the request whose handler holds the event loop (0: none)
    kokoro_model,            \* main.py:31, 0 is None, n > 0 the n-th engine object built
    kokoro_patched,          \* patch_kokoro_float_inputs has completed on kokoro_model
    supertonic_model,        \* main.py:32
    kokoro_model_lock,       \* main.py:34, holder of the asyncio.Lock (0: free)
    supertonic_model_lock,   \* main.py:35
    shutdown_event,          \* main.py:36
    supertonic_voice_styles, \* main.py:33, voice -> style handle (0: absent)
    voice_style_cache,       \* SupertonicTTS._voice_style_cache of the engine
    style_loads,             \* voice -> number of successful load_voice_style calls
    kokoro_files,            \* searched directory -> the names of the files in it
    supertonic_files,        \* supertonic assets present in its assets directory
    created,                 \* backend -> number of engine objects constructed
    sig_pc,                  \* position of signal_handler on the main thread
    exit_thread,             \* some delayed_exit thread has been started
    lifespan_pc,             \* position of lifespan: serving, sleeping, complete
    alive,                   \* the process has not terminated
    TTS_DEFAULT_MODEL,       \* the environment variable read by main.py:42
    DEFAULT_TTS_MODEL,       \* main.py:42-48
    TTS_MODEL_FILE,          \* main.py:49, "" when the variable is not set
    available_providers,     \* what ort.get_available_providers() returns
    session_providers        \* the providers of the kokoro InferenceSession

registry == << kokoro_model, kokoro_patched, supertonic_model, kokoro_model_lock,
               supertonic_model_lock, created >>
styles == << supertonic_voice_styles, voice_style_cache, style_loads >>
assets == << kokoro_files, supertonic_files >>
coordinator == << shutdown_event, sig_pc, exit_thread, lifespan_pc, alive >>
settings == << TTS_DEFAULT_MODEL, DEFAULT_TTS_MODEL, TTS_MODEL_FILE,
               available_providers >>
sessions == << session_providers >>
vars == << requests, running, registry, styles, assets, coordinator, settings,
          sessions >>

VoiceSet == Range(VOICE_LIST)

\* the keys the module-level style cache can be asked for
StyleKeys == VoiceSet \cup VoiceInputs

\* a start-up that would build the kokoro engine before the first request
Init_eager ==
    /\ requests = [r \in Req |-> NoRequest]
    /\ running = 0
    /\ kokoro_model = 1
    /\ kokoro_patched = TRUE
    /\ supertonic_model = 0
    /\ kokoro_model_lock = 0
    /\ supertonic_model_lock = 0
    /\ shutdown_event = FALSE
    /\ supertonic_voice_styles = [v \in StyleKeys |-> 0]
    /\ voice_style_cache = [v \in VoiceSet |-> 0]
    /\ style_loads = [v \in VoiceSet |-> 0]
    /\ kokoro_files = InPlace
    /\ supertonic_files \in BOOLEAN
    /\ created = [b \in Range(ALLOWED_MODEL_FAMILIES) |->
                     IF b = "kokoro" THEN 1 ELSE 0]
    /\ sig_pc = "idle"
    /\ exit_thread = FALSE
    /\ lifespan_pc = "serving"
    /\ alive = TRUE
    /\ TTS_DEFAULT_MODEL = "unset"
    /\ DEFAULT_TTS_MODEL = default_tts_model(TTS_DEFAULT_MODEL)
    /\ TTS_MODEL_FILE = ""
    /\ available_providers = << "CUDAExecutionProvider", "CPUExecutionProvider" >>
    /\ session_providers = select_providers(available_providers)

\* The state after the import of main.py and the start-up half of lifespan
\* (main.py:306-310), which only registers the signal handlers.
Init ==
    /\ requests = [r \in Req |-> NoRequest]
    /\ running = 0
    /\ kokoro_model = 0
    /\ kokoro_patched = FALSE
    /\ supertonic_model = 0
    /\ kokoro_model_lock = 0
    /\ supertonic_model_lock = 0
    /\ shutdown_event = FALSE
    /\ supertonic_voice_styles = [v \in StyleKeys |-> 0]
    /\ voice_style_cache = [v \in VoiceSet |-> 0]
    /\ style_loads = [v \in VoiceSet |-> 0]
    /\ \E present \in BOOLEAN :
          /\ kokoro_files = IF present THEN InPlace ELSE Nowhere
          /\ supertonic_files = present
    /\ created = [b \in Range(ALLOWED_MODEL_FAMILIES) |-> 0]
    /\ sig_pc = "idle"
    /\ exit_thread = FALSE
    /\ lifespan_pc = "serving"
    /\ alive = TRUE
    /\ TTS_DEFAULT_MODEL = "unset"
    /\ DEFAULT_TTS_MODEL = default_tts_model(TTS_DEFAULT_MODEL)
    /\ TTS_MODEL_FILE = ""
    /\ available_providers = << "CUDAExecutionProvider", "CPUExecutionProvider" >>
    /\ session_providers = << >>

\* the values the deployment may give the environment variable
EnvInputs == {"unset", "kokoro", "supertonic", "bogus", ""}

\* The state after the import of main.py under any of those environments,
\* with the assets in place.
InitFields ==
    /\ requests = [r \in Req |-> NoRequest]
    /\ running = 0
    /\ kokoro_model = 0
    /\ kokoro_patched = FALSE
    /\ supertonic_model = 0
    /\ kokoro_model_lock = 0
    /\ supertonic_model_lock = 0
    /\ shutdown_event = FALSE
    /\ supertonic_voice_styles = [v \in StyleKeys |-> 0]
    /\ voice_style_cache = [v \in VoiceSet |-> 0]
    /\ style_loads = [v \in VoiceSet |-> 0]
    /\ kokoro_files = InPlace
    /\ supertonic_files = TRUE
    /\ created = [b \in Range(ALLOWED_MODEL_FAMILIES) |-> 0]
    /\ sig_pc = "idle"
    /\ exit_thread = FALSE
    /\ lifespan_pc = "serving"
    /\ alive = TRUE
    /\ TTS_DEFAULT_MODEL \in EnvInputs
    /\ DEFAULT_TTS_MODEL = default_tts_model(TTS_DEFAULT_MODEL)
    /\ TTS_MODEL_FILE = ""
    /\ available_providers = << "CUDAExecutionProvider", "CPUExecutionProvider" >>
    /\ session_providers = << >>

\* The request as the application sees it: the defaults of SpeechRequest
\* (main.py:353-361) and of the `model` parameter of get_voices and
\* get_languages (main.py:509, 542) stand for what the client left out.
SpeechRequest(q) ==
    [endpoint |-> q.endpoint,
     model |-> IF q.model = "omitted" THEN DEFAULT_TTS_MODEL ELSE q.model,
     voice |-> IF q.voice = "omitted" THEN "af_heart" ELSE q.voice,
     response_format |-> q.response_format,
     input |-> q.input,
     speed |-> q.speed,
     audio |-> q.audio,
     omitted |-> {f \in {"model", "voice"} : q[f] = "omitted"},
     pc |-> "call", status |-> 0, tts_model |-> 0, body |-> << >>,
     files |-> [model |-> NotFound, voices |-> NotFound]]

\* the constraints of the fields of SpeechRequest (main.py:356, 361)
FieldsValidate(q) ==
    /\ q.input >= input_min_length
    /\ q.input <= input_max_length
    /\ q.speed >= speed_ge
    /\ q.speed <= speed_le

\* The main thread executes the handler of r (0: the idle event loop) and is
\* not inside signal_handler.
MainThread(r) == alive /\ sig_pc = "idle" /\ running = r

At(r, label) == requests[r].pc = label

\* raise HTTPException(status_code = code) / return a response with that code
Respond(r, code) ==
    requests' = [requests EXCEPT ![r].pc = "done", ![r].status = code]

Goto(r, label) == requests' = [requests EXCEPT ![r].pc = label]

\* the handler of r ends with that status and gives the event loop back
Finish(r, code) == Respond(r, code) /\ running' = 0

\* return a response with status 200 and that content
Return(r, content) ==
    requests' = [requests EXCEPT ![r].pc = "done", ![r].status = 200,
                                 ![r].body = content]

(* ------------------------- shutdown_middleware ------------------------ *)
\* A request reaches the application: its fields are the client's choice.
\* if shutdown_event.is_set(): raise HTTPException(503); else await call_next
shutdown_middleware_open(r) ==
    /\ MainThread(0)
    /\ lifespan_pc = "serving"
    /\ At(r, "new")
    /\ r > 1 => ~At(r - 1, "new")
    /\ \E q \in RequestInputs :
          /\ Relevant(q)
          /\ requests' = [requests EXCEPT ![r] = SpeechRequest(q)]
    /\ UNCHANGED << running, registry, styles, assets, coordinator, settings,
                    sessions >>

shutdown_middleware(r) ==
    /\ MainThread(0)
    /\ lifespan_pc = "serving"
    /\ At(r, "new")
    /\ r > 1 => ~At(r - 1, "new")
    /\ \E q \in RequestInputs :
          /\ Relevant(q)
          /\ requests' = [requests EXCEPT ![r] =
                IF shutdown_event
                THEN [SpeechRequest(q) EXCEPT !.pc = "done", !.status = 503]
                ELSE SpeechRequest(q)]
    /\ UNCHANGED << running, registry, styles, assets, coordinator, settings,
                    sessions >>

\* the same gate before a request drawn from another set of inputs
Gate(r, inputs) ==
    /\ MainThread(0)
    /\ lifespan_pc = "serving"
    /\ At(r, "new")
    /\ r > 1 => ~At(r - 1, "new")
    /\ \E q \in inputs :
          requests' = [requests EXCEPT ![r] =
                IF shutdown_event
                THEN [SpeechRequest(q) EXCEPT !.pc = "done", !.status = 503]
                ELSE SpeechRequest(q)]
    /\ UNCHANGED << running, registry, styles, assets, coordinator, settings,
                    sessions >>

\* the requests of FieldInputs
shutdown_middleware_fields(r) == r <= MaxFieldReq /\ Gate(r, FieldInputs)

\* one request of VoiceProbes
shutdown_middleware_voices(r) == r = 1 /\ Gate(r, VoiceProbes)

(* ------------------- health_check, root, listings --------------------- *)
health_check_gated(r) ==
    /\ MainThread(0)
    /\ At(r, "call")
    /\ requests[r].endpoint = "health"
    /\ Respond(r, IF shutdown_event THEN 503 ELSE 200)
    /\ UNCHANGED << running, registry, styles, assets, coordinator, settings,
                    sessions >>

health_check(r) ==
    /\ MainThread(0)
    /\ At(r, "call")
    /\ requests[r].endpoint = "health"
    /\ Respond(r, 200)
    /\ UNCHANGED << running, registry, styles, assets, coordinator, settings,
                    sessions >>

root(r) ==
    /\ MainThread(0)
    /\ At(r, "call")
    /\ requests[r].endpoint = "root"
    /\ Respond(r, 200)
    /\ UNCHANGED << running, registry, styles, assets, coordinator, settings,
                    sessions >>

\* a listing that would ask the engine for its voices, building it if needed
get_voices_from_engine(r) ==
    /\ MainThread(0)
    /\ At(r, "call")
    /\ requests[r].endpoint = "voices"
    /\ Respond(r, IF requests[r].model \notin Range(ALLOWED_MODEL_FAMILIES)
                  THEN 400 ELSE 200)
    /\ created' = [created EXCEPT !["kokoro"] =
                      IF kokoro_model = 0 THEN @ + 1 ELSE @]
    /\ kokoro_model' = IF kokoro_model = 0 THEN created'["kokoro"] ELSE kokoro_model
    /\ UNCHANGED << running, kokoro_patched, supertonic_model, kokoro_model_lock,
                    supertonic_model_lock, styles, assets, coordinator, settings,
                    sessions >>

get_voices(r) ==
    /\ MainThread(0)
    /\ At(r, "call")
    /\ requests[r].endpoint = "voices"
    /\ Respond(r, IF requests[r].model \notin Range(ALLOWED_MODEL_FAMILIES)
                  THEN 400 ELSE 200)
    /\ UNCHANGED << running, registry, styles, assets, coordinator, settings,
                    sessions >>

\* ord() of the characters of a language code of the catalogs
codepoints(code) ==
    CASE code = "de" -> << 100, 101 >>
      [] code = "en" -> << 101, 110 >>
      [] code = "es" -> << 101, 115 >>
      [] code = "fr" -> << 102, 114 >>
      [] code = "it" -> << 105, 116 >>
      [] code = "ja" -> << 106, 97 >>
      [] code = "ko" -> << 107, 111 >>
      [] code = "pt" -> << 112, 116 >>
      [] code = "zh" -> << 122, 104 >>

\* a < b for two strings, as Python compares them: by the first character
\* that differs, a proper prefix first
str_lt(a, b) ==
    LET x == codepoints(a)
        y == codepoints(b)
    IN  \/ \E i \in 1..Len(x) :
              /\ i <= Len(y)
              /\ x[i] < y[i]
              /\ \A j \in 1..(i - 1) : x[j] = y[j]
        \/ Len(x) < Len(y) /\ \A j \in 1..Len(x) : x[j] = y[j]

\* sorted(strings) for a set of strings
RECURSIVE sorted(_)
sorted(strings) ==
    IF strings = {} THEN << >>
    ELSE LET least == CHOOSE a \in strings :
                          \A b \in strings \ {a} : str_lt(a, b)
         IN  << least >> \o sorted(strings \ {least})

\* a listing with one entry for every voice, in the order of the catalog
get_languages_per_voice(r) ==
    /\ MainThread(0)
    /\ At(r, "call")
    /\ requests[r].endpoint = "languages"
    /\ IF requests[r].model \notin Range(ALLOWED_MODEL_FAMILIES)
       THEN Respond(r, 400)
       ELSE Return(r, [i \in DOMAIN get_voices_by_model(requests[r].model) |->
                         get_voices_by_model(requests[r].model)[i].language])
    /\ UNCHANGED << running, registry, styles, assets, coordinator, settings,
                    sessions >>

\* main.py:542-590: the model check, then the set of the `language` values of
\* the catalog, sorted, one LanguageResponse for each code (kept as the code)
get_languages(r) ==
    /\ MainThread(0)
    /\ At(r, "call")
    /\ requests[r].endpoint = "languages"
    /\ IF requests[r].model \notin Range(ALLOWED_MODEL_FAMILIES)
       THEN Respond(r, 400)
       ELSE LET voices_data == get_voices_by_model(requests[r].model)
                languages == {voices_data[i].language : i \in DOMAIN voices_data}
            IN  Return(r, sorted(languages))
    /\ UNCHANGED << running, registry, styles, assets, coordinator, settings,
                    sessions >>

(* --------------------- text_to_speech: validation --------------------- *)
\* what is raised inside the try block of text_to_speech (main.py:621-673)
HTTPException(status_code) ==
    [kind |-> "HTTPException", status_code |-> status_code]

Exception == [kind |-> "Exception", status_code |-> 0]

\* one except clause for everything
text_to_speech_except_all(exc) == 500

\* main.py:675-684: `except HTTPException: raise` hands the exception on with
\* its status, `except Exception` answers 500
text_to_speech_except(exc) ==
    IF exc.kind = "HTTPException" THEN exc.status_code ELSE 500

\* The body is validated against SpeechRequest before the handler is called:
\* a body that breaks a Field constraint is answered by the framework with
\* its validation error (422) and text_to_speech does not run.  Else entry of
\* the handler and first shutdown check (main.py:594-602).
text_to_speech_enter(r) ==
    /\ MainThread(0)
    /\ At(r, "call")
    /\ requests[r].endpoint = "speech"
    /\ IF ~FieldsValidate(requests[r])
       THEN Finish(r, 422)
       ELSE IF shutdown_event
       THEN Finish(r, 503)
       ELSE Goto(r, "model") /\ running' = r
    /\ UNCHANGED << registry, styles, assets, coordinator, settings, sessions >>

\* a handler that would leave the model to the later checks
validate_model_unchecked(r) ==
    /\ MainThread(r)
    /\ At(r, "model")
    /\ Goto(r, "format")
    /\ UNCHANGED << running, registry, styles, assets, coordinator, settings,
                    sessions >>

\* main.py:604-612
validate_model(r) ==
    /\ MainThread(r)
    /\ At(r, "model")
    /\ IF requests[r].model \notin Range(ALLOWED_MODEL_FAMILIES)
       THEN Finish(r, 400)
       ELSE Goto(r, "format") /\ UNCHANGED running
    /\ UNCHANGED << registry, styles, assets, coordinator, settings, sessions >>

\* a format check that would hand on to get_*_model, past the voice check
validate_format_late(r) ==
    /\ MainThread(r)
    /\ At(r, "format")
    /\ IF requests[r].response_format # "wav"
       THEN Finish(r, 400)
       ELSE Goto(r, "get") /\ UNCHANGED running
    /\ UNCHANGED << registry, styles, assets, coordinator, settings, sessions >>

\* main.py:614-619
validate_format(r) ==
    /\ MainThread(r)
    /\ At(r, "format")
    /\ IF requests[r].response_format # "wav"
       THEN Finish(r, 400)
       ELSE Goto(r, "voice") /\ UNCHANGED running
    /\ UNCHANGED << registry, styles, assets, coordinator, settings, sessions >>

\* main.py:622-631
validate_voice(r) ==
    /\ MainThread(r)
    /\ At(r, "voice")
    /\ IF ~is_valid_voice(requests[r].voice, requests[r].model)
       THEN Finish(r, text_to_speech_except(HTTPException(400)))
       ELSE Goto(r, "get") /\ UNCHANGED running
    /\ UNCHANGED << registry, styles, assets, coordinator, settings, sessions >>

(* ------------------ engine registry: shared pieces -------------------- *)
\* `if kokoro_model is not None` / `if supertonic_model is not None`
HasInstance_never(slot) == FALSE

HasInstance(slot) == slot # 0

\* get_*_model returns `engine` to text_to_speech, which goes on to its
\* second shutdown check
Acquired(r, engine) ==
    requests' = [requests EXCEPT ![r].pc = "check2", ![r].tts_model = engine]

\* `await lock.acquire()` of asyncio.Lock: taken at once when free, else the
\* coroutine is suspended (gives the loop back) until the lock is free.
Acquire(r, lock) ==
    /\ alive
    /\ sig_pc = "idle"
    /\ requests[r].pc \in {"lock", "lock_wait"}
    /\ running = IF At(r, "lock") THEN r ELSE 0
    /\ At(r, "lock_wait") => lock = 0
    /\ IF lock = 0
       THEN Goto(r, "recheck") /\ running' = r
       ELSE Goto(r, "lock_wait") /\ running' = 0

(* -------------------------- get_kokoro_model -------------------------- *)
\* main.py:228-229, the unsynchronised fast path
get_kokoro_model(r) ==
    /\ MainThread(r)
    /\ At(r, "get")
    /\ requests[r].model = "kokoro"
    /\ IF HasInstance(kokoro_model)
       THEN Acquired(r, kokoro_model)
       ELSE Goto(r, "lock")
    /\ UNCHANGED << running, registry, styles, assets, coordinator, settings,
                    sessions >>

\* main.py:231
kokoro_lock_acquire(r) ==
    /\ requests[r].model = "kokoro"
    /\ Acquire(r, kokoro_model_lock)
    /\ kokoro_model_lock' = IF kokoro_model_lock = 0 THEN r ELSE kokoro_model_lock
    /\ UNCHANGED << kokoro_model, kokoro_patched, supertonic_model,
                    supertonic_model_lock, created, styles, assets, coordinator,
                    settings, sessions >>

\* main.py:232-233, the check repeated under the lock
kokoro_recheck(r) ==
    /\ MainThread(r)
    /\ At(r, "recheck")
    /\ requests[r].model = "kokoro"
    /\ IF HasInstance(kokoro_model)
       THEN Acquired(r, kokoro_model) /\ kokoro_model_lock' = 0
       ELSE Goto(r, "find") /\ UNCHANGED kokoro_model_lock
    /\ UNCHANGED << running, kokoro_model, kokoro_patched, supertonic_model,
                    supertonic_model_lock, created, styles, assets, coordinator,
                    settings, sessions >>

\* the directories the model is looked for in, whatever TTS_MODEL_FILE is
model_search_dirs_all(requested_model) == search_dirs

\* main.py:120
model_search_dirs(requested_model) ==
    IF requested_model # "" THEN << kokoro_dir >> ELSE search_dirs

\* main.py:237 and 98-187: the files found locally are used, each missing one
\* is downloaded into kokoro_dir (all are tried); one failed download raises.
\* download_file_if_missing (main.py:76-95) returns True for a file that
\* exists; a download that fails leaves no file, or the part it had written.
find_model_files(r) ==
    /\ MainThread(r)
    /\ At(r, "find")
    /\ requests[r].model = "kokoro"
    /\ LET requested_model == requested_model_of(TTS_MODEL_FILE)
           patterns == IF TTS_MODEL_FILE # "" THEN << requested_model >>
                       ELSE model_patterns
           model_name == first_found(model_search_dirs(requested_model),
                                     patterns, kokoro_files)
           voice_name == first_found(search_dirs, voice_patterns, kokoro_files)
           default_model == IF requested_model # "" THEN requested_model
                            ELSE "model.onnx"
           default_voices == "voices-v1.0.bin"
           files_to_download ==
               (IF model_name = NotFound THEN {default_model} ELSE {})
               \cup (IF voice_name = NotFound THEN {default_voices} ELSE {})
       IN  \E outcome \in [files_to_download -> {"written", "failed", "cut"}] :
              /\ \A f \in files_to_download :
                    f \in kokoro_files[kokoro_dir] => outcome[f] = "written"
              /\ kokoro_files' =
                    [kokoro_files EXCEPT ![kokoro_dir] =
                        @ \cup {f \in files_to_download : outcome[f] # "failed"}]
              /\ IF \A f \in files_to_download : outcome[f] = "written"
                 THEN /\ requests' = [requests EXCEPT
                            ![r].pc = "construct",
                            ![r].files =
                                [model |-> IF model_name = NotFound
                                           THEN [dir |-> kokoro_dir,
                                                 name |-> default_model]
                                           ELSE model_name,
                                 voices |-> IF voice_name = NotFound
                                            THEN [dir |-> kokoro_dir,
                                                  name |-> default_voices]
                                            ELSE voice_name]]
                      /\ UNCHANGED << running, kokoro_model_lock >>
                 ELSE /\ Finish(r, text_to_speech_except(Exception))
                      /\ kokoro_model_lock' = 0
    /\ UNCHANGED << kokoro_model, kokoro_patched, supertonic_model,
                    supertonic_model_lock, created, styles, supertonic_files,
                    coordinator, settings, sessions >>

\* a construction that would raise out of a block holding the lock by hand
kokoro_construct_keeps_lock(r) ==
    /\ MainThread(r)
    /\ At(r, "construct")
    /\ requests[r].model = "kokoro"
    /\ \E ok \in BOOLEAN :
          IF ok
          THEN /\ created' = [created EXCEPT !["kokoro"] = @ + 1]
               /\ kokoro_model' = created'["kokoro"]
               /\ session_providers' = select_providers(available_providers)
               /\ Goto(r, "patch")
               /\ UNCHANGED running
          ELSE /\ Finish(r, text_to_speech_except(Exception))
               /\ UNCHANGED << created, kokoro_model, session_providers >>
    /\ UNCHANGED << kokoro_model_lock, kokoro_patched, supertonic_model,
                    supertonic_model_lock, styles, assets, coordinator, settings >>

\* main.py:241-263: provider selection, InferenceSession, Kokoro.from_session
\* and the assignment to the global; any of the calls may raise.
kokoro_construct(r) ==
    /\ MainThread(r)
    /\ At(r, "construct")
    /\ requests[r].model = "kokoro"
    /\ \E ok \in BOOLEAN :
          IF ok
          THEN /\ created' = [created EXCEPT !["kokoro"] = @ + 1]
               /\ kokoro_model' = created'["kokoro"]
               /\ session_providers' = select_providers(available_providers)
               /\ Goto(r, "patch")
               /\ UNCHANGED << running, kokoro_model_lock >>
          ELSE /\ Finish(r, text_to_speech_except(Exception))
               /\ kokoro_model_lock' = 0
               /\ UNCHANGED << created, kokoro_model, session_providers >>
    /\ UNCHANGED << kokoro_patched, supertonic_model, supertonic_model_lock,
                    styles, assets, coordinator, settings >>

\* a failure handler that would empty the slot again
patch_kokoro_float_inputs_clears(r) ==
    /\ MainThread(r)
    /\ At(r, "patch")
    /\ requests[r].model = "kokoro"
    /\ \E ok \in BOOLEAN :
          IF ok
          THEN /\ kokoro_patched' = TRUE
               /\ Acquired(r, kokoro_model)
               /\ UNCHANGED << running, kokoro_model >>
          ELSE /\ Finish(r, text_to_speech_except(Exception))
               /\ kokoro_model' = 0
               /\ UNCHANGED kokoro_patched
    /\ kokoro_model_lock' = 0
    /\ UNCHANGED << supertonic_model, supertonic_model_lock, created,
                    styles, assets, coordinator, settings, sessions >>

\* main.py:264 and 190-223, then the end of the `async with` block and the
\* return of main.py:270; the call may raise like any other construction step.
patch_kokoro_float_inputs(r) ==
    /\ MainThread(r)
    /\ At(r, "patch")
    /\ requests[r].model = "kokoro"
    /\ \E ok \in BOOLEAN :
          IF ok
          THEN /\ kokoro_patched' = TRUE
               /\ Acquired(r, kokoro_model)
               /\ UNCHANGED running
          ELSE /\ Finish(r, text_to_speech_except(Exception))
               /\ UNCHANGED kokoro_patched
    /\ kokoro_model_lock' = 0
    /\ UNCHANGED << kokoro_model, supertonic_model, supertonic_model_lock, created,
                    styles, assets, coordinator, settings, sessions >>

(* ------------------------ get_supertonic_model ------------------------ *)
\* main.py:275-276
get_supertonic_model(r) ==
    /\ MainThread(r)
    /\ At(r, "get")
    /\ requests[r].model = "supertonic"
    /\ IF HasInstance(supertonic_model)
       THEN Acquired(r, supertonic_model)
       ELSE Goto(r, "lock")
    /\ UNCHANGED << running, registry, styles, assets, coordinator, settings,
                    sessions >>

\* main.py:278
supertonic_lock_acquire(r) ==
    /\ requests[r].model = "supertonic"
    /\ Acquire(r, supertonic_model_lock)
    /\ supertonic_model_lock' =
          IF supertonic_model_lock = 0 THEN r ELSE supertonic_model_lock
    /\ UNCHANGED << kokoro_model, kokoro_patched, supertonic_model,
                    kokoro_model_lock, created, styles, assets, coordinator,
                    settings, sessions >>

\* main.py:279-280
supertonic_recheck(r) ==
    /\ MainThread(r)
    /\ At(r, "recheck")
    /\ requests[r].model = "supertonic"
    /\ IF HasInstance(supertonic_model)
       THEN Acquired(r, supertonic_model) /\ supertonic_model_lock' = 0
       ELSE Goto(r, "find") /\ UNCHANGED supertonic_model_lock
    /\ UNCHANGED << running, kokoro_model, kokoro_patched, supertonic_model,
                    kokoro_model_lock, created, styles, assets, coordinator,
                    settings, sessions >>

\* SupertonicTTS.__init__, first half: download_supertonic_models fetches what
\* is missing and raises when a download fails.
download_supertonic_models(r) ==
    /\ MainThread(r)
    /\ At(r, "find")
    /\ requests[r].model = "supertonic"
    /\ \E ok \in BOOLEAN :
          /\ supertonic_files' = (supertonic_files \/ ok)
          /\ IF supertonic_files'
             THEN Goto(r, "construct") /\ UNCHANGED << running, supertonic_model_lock >>
             ELSE Finish(r, text_to_speech_except(Exception)) /\ supertonic_model_lock' = 0
    /\ UNCHANGED << kokoro_model, kokoro_patched, supertonic_model,
                    kokoro_model_lock, created, styles, kokoro_files, coordinator,
                    settings, sessions >>

\* SupertonicTTS.__init__, second half (load_text_to_speech), the assignment of
\* main.py:285, the end of the `async with` block and the return of main.py:291.
supertonic_construct(r) ==
    /\ MainThread(r)
    /\ At(r, "construct")
    /\ requests[r].model = "supertonic"
    /\ \E ok \in BOOLEAN :
          IF ok
          THEN /\ created' = [created EXCEPT !["supertonic"] = @ + 1]
               /\ supertonic_model' = created'["supertonic"]
               /\ Acquired(r, supertonic_model')
               /\ UNCHANGED running
          ELSE /\ Finish(r, text_to_speech_except(Exception))
               /\ UNCHANGED << created, supertonic_model >>
    /\ supertonic_model_lock' = 0
    /\ UNCHANGED << kokoro_model, kokoro_patched, kokoro_model_lock,
                    styles, assets, coordinator, settings, sessions >>

(* --------------------- text_to_speech: synthesis ---------------------- *)
\* main.py:639-644 without the check
second_shutdown_check_skipped(r) ==
    /\ MainThread(r)
    /\ At(r, "check2")
    /\ Goto(r, IF requests[r].model = "kokoro" THEN "synth" ELSE "style")
    /\ UNCHANGED << running, registry, styles, assets, coordinator, settings,
                    sessions >>

\* main.py:639-646: the shutdown check repeated once the engine is there
second_shutdown_check(r) ==
    /\ MainThread(r)
    /\ At(r, "check2")
    /\ IF shutdown_event
       THEN Finish(r, text_to_speech_except(HTTPException(503)))
       ELSE /\ Goto(r, IF requests[r].model = "kokoro" THEN "synth" ELSE "style")
            /\ UNCHANGED running
    /\ UNCHANGED << registry, styles, assets, coordinator, settings, sessions >>

\* a lookup that would load the style anew on every call
get_supertonic_voice_style_reload(r) ==
    /\ MainThread(r)
    /\ At(r, "style")
    /\ LET v == requests[r].voice IN
       IF v \notin VoiceSet
       THEN Finish(r, text_to_speech_except(Exception)) /\ UNCHANGED styles
       ELSE \E ok \in BOOLEAN :
               IF ok
               THEN /\ style_loads' = [style_loads EXCEPT ![v] = @ + 1]
                    /\ voice_style_cache' =
                          [voice_style_cache EXCEPT ![v] = style_loads'[v]]
                    /\ supertonic_voice_styles' =
                          [supertonic_voice_styles EXCEPT ![v] = style_loads'[v]]
                    /\ Goto(r, "synth")
                    /\ UNCHANGED running
               ELSE Finish(r, text_to_speech_except(Exception)) /\ UNCHANGED styles
    /\ UNCHANGED << registry, assets, coordinator, settings, sessions >>

\* a lookup whose load would not be kept by the engine
get_supertonic_voice_style_module_only(r) ==
    /\ MainThread(r)
    /\ At(r, "style")
    /\ LET v == requests[r].voice IN
       IF supertonic_voice_styles[v] # 0
       THEN Goto(r, "synth") /\ UNCHANGED << running, styles >>
       ELSE IF v \notin VoiceSet
       THEN Finish(r, text_to_speech_except(Exception)) /\ UNCHANGED styles
       ELSE \E ok \in BOOLEAN :
               IF ok
               THEN /\ style_loads' = [style_loads EXCEPT ![v] = @ + 1]
                    /\ supertonic_voice_styles' =
                          [supertonic_voice_styles EXCEPT ![v] = style_loads'[v]]
                    /\ Goto(r, "synth")
                    /\ UNCHANGED << running, voice_style_cache >>
               ELSE Finish(r, text_to_speech_except(Exception)) /\ UNCHANGED styles
    /\ UNCHANGED << registry, assets, coordinator, settings, sessions >>

\* main.py:294-300 with SupertonicTTS.get_voice_style (supertonic_wrapper.py:
\* 134-179) inlined: module cache, engine voice list, engine cache, load.
get_supertonic_voice_style(r) ==
    /\ MainThread(r)
    /\ At(r, "style")
    /\ LET v == requests[r].voice IN
       IF supertonic_voice_styles[v] # 0
       THEN Goto(r, "synth") /\ UNCHANGED << running, styles >>
       ELSE IF v \notin VoiceSet
       THEN Finish(r, text_to_speech_except(Exception)) /\ UNCHANGED styles
       ELSE IF voice_style_cache[v] # 0
       THEN /\ supertonic_voice_styles' =
                  [supertonic_voice_styles EXCEPT ![v] = voice_style_cache[v]]
            /\ Goto(r, "synth")
            /\ UNCHANGED << running, voice_style_cache, style_loads >>
       ELSE \E ok \in BOOLEAN :
               IF ok
               THEN /\ style_loads' = [style_loads EXCEPT ![v] = @ + 1]
                    /\ voice_style_cache' =
                          [voice_style_cache EXCEPT ![v] = style_loads'[v]]
                    /\ supertonic_voice_styles' =
                          [supertonic_voice_styles EXCEPT ![v] = style_loads'[v]]
                    /\ Goto(r, "synth")
                    /\ UNCHANGED running
               ELSE Finish(r, text_to_speech_except(Exception)) /\ UNCHANGED styles
    /\ UNCHANGED << registry, assets, coordinator, settings, sessions >>

\* main.py:646-660: tts_model.create / tts_model.synthesize returns audio,
\* raises, or never returns.
synthesize(r) ==
    /\ MainThread(r)
    /\ At(r, "synth")
    /\ \E outcome \in {"audio", "raise", "hang"} :
          IF outcome = "audio" THEN Goto(r, "encode") /\ UNCHANGED running
          ELSE IF outcome = "raise" THEN Finish(r, text_to_speech_except(Exception))
          ELSE Goto(r, "hung") /\ UNCHANGED running
    /\ UNCHANGED << registry, styles, assets, coordinator, settings, sessions >>

(* ----------------------- create_wav_from_audio ------------------------ *)
\* A sample is a float32 given in quarters.  Its product with 32767 is a
\* float32 too: the exact product rounded to 24 significant bits, ties to
\* even.  The exact product can pass 2^31, so it is kept in two 16-bit halves:
\* its integer part is hi * 2^16 + lo and `quarters` is what is left of it.
scale == 32767
half_word == 65536
float32_bits == 24

RECURSIVE Pow2(_)
Pow2(k) == IF k = 0 THEN 1 ELSE 2 * Pow2(k - 1)

\* the number of binary digits of a >= 0
RECURSIVE bit_length(_)
bit_length(a) == IF a = 0 THEN 0 ELSE 1 + bit_length(a \div 2)

Abs(x) == IF x < 0 THEN -x ELSE x

\* |s| * 32767 before it is rounded
exact_product(n) ==
    LET whole == Abs(n) \div 4
        part == ((Abs(n) % 4) * scale)
        low == (whole % half_word) * scale + part \div 4
    IN  [hi |-> (whole \div half_word) * scale + low \div half_word,
         lo |-> low % half_word,
         quarters |-> part % 4]

\* the integer part of |s * 32767| as float32 holds it
float32_product(n) ==
    LET x == exact_product(n)
        digits == IF x.hi = 0 THEN bit_length(x.lo) ELSE 16 + bit_length(x.hi)
    IN  IF digits < float32_bits - 1
        THEN \* two binary places are left for the quarters: exact
             [hi |-> x.hi, lo |-> x.lo]
        ELSE IF digits = float32_bits - 1
        THEN \* one binary place: 1/4 goes down to 0, 3/4 goes up to 1
             IF x.quarters = 3 /\ x.lo + 1 = half_word
             THEN [hi |-> x.hi + 1, lo |-> 0]
             ELSE [hi |-> x.hi,
                   lo |-> IF x.quarters = 3 THEN x.lo + 1 ELSE x.lo]
        ELSE \* the last place is worth ulp >= 1
             LET ulp == Pow2(digits - float32_bits)
                 below == x.lo - (x.lo % ulp)
                 rest == 4 * (x.lo % ulp) + x.quarters
                 odd == IF ulp = half_word THEN x.hi % 2 = 1
                        ELSE (below \div ulp) % 2 = 1
                 up == rest > 2 * ulp \/ (rest = 2 * ulp /\ odd)
             IN  IF ~up THEN [hi |-> x.hi, lo |-> below]
                 ELSE IF below + ulp = half_word
                 THEN [hi |-> x.hi + 1, lo |-> 0]
                 ELSE [hi |-> x.hi, lo |-> below + ulp]

\* the 16 low bits of an integer read as a signed 16-bit value
int16(v) == (((v % half_word) + 32768) % half_word) - 32768

\* the float32 product of the sample n fits a signed 32-bit integer
fits_int32(n) ==
    LET x == float32_product(n)
    IN  \/ x.hi < 32768
        \/ n < 0 /\ x.hi = 32768 /\ x.lo = 0

\* a cast that clips to the 16-bit range first
astype_int16_clipped(n) ==
    LET x == float32_product(n)
    IN  IF x.hi > 0 \/ x.lo > 32767
        THEN {IF n < 0 THEN -32768 ELSE 32767}
        ELSE {IF n < 0 THEN -x.lo ELSE x.lo}

\* main.py:390: (audio_data * 32767).astype(np.int16) for one sample, the
\* values a build can give.  The cast truncates toward zero.  While the
\* truncated value fits 32 bits the conversion goes through a 32-bit integer
\* and keeps its low 16 bits.  Beyond that the conversion is undefined: a
\* build gives the low bits of its "out of range" integer, which is
\* 0x80000000 (x86) or the nearer end of the 32-bit range (ARM).
astype_int16(n) ==
    LET x == float32_product(n)
    IN  IF fits_int32(n)
        THEN {int16(IF n < 0 THEN -x.lo ELSE x.lo)}
        ELSE IF n < 0 THEN {int16(0)} ELSE {int16(0), int16(Pow2(16) - 1)}

\* main.py:384-401: the 16-bit samples written to the WAV container, one for
\* every sample of audio_data in its order
create_wav_from_audio(audio_data) ==
    LET values == UNION {astype_int16(audio_data[i]) : i \in DOMAIN audio_data}
    IN  {frames \in [DOMAIN audio_data -> values] :
            \A i \in DOMAIN audio_data :
                frames[i] \in astype_int16(audio_data[i])}

\* a response step that would look at shutdown_event a third time
respond_wav_checked(r) ==
    /\ MainThread(r)
    /\ At(r, "encode")
    /\ IF shutdown_event THEN Respond(r, 503)
       ELSE \E frames \in create_wav_from_audio(requests[r].audio) :
               Return(r, frames)
    /\ running' = 0
    /\ UNCHANGED << registry, styles, assets, coordinator, settings, sessions >>

\* main.py:662-673: create_wav_from_audio and the StreamingResponse
respond_wav(r) ==
    /\ MainThread(r)
    /\ At(r, "encode")
    /\ \E frames \in create_wav_from_audio(requests[r].audio) :
          Return(r, frames)
    /\ running' = 0
    /\ UNCHANGED << registry, styles, assets, coordinator, settings, sessions >>

(* ------------------------ shutdown coordination ----------------------- *)
\* threading.Event.set() as signal_handler and lifespan call it
EventSet_toggle(event) == ~event

EventSet(event) == TRUE

\* main.py:55-56: the handler interrupts the main thread wherever it is and
\* sets the event
signal_handler ==
    /\ alive
    /\ sig_pc = "idle"
    /\ shutdown_event' = EventSet(shutdown_event)
    /\ sig_pc' = "thread"
    /\ UNCHANGED << requests, running, registry, styles, assets,
                    exit_thread, lifespan_pc, alive, settings, sessions >>

\* main.py:58-66: the handler starts a delayed_exit thread and returns.  The
\* threads are alike and the first to wake ends the process, so the model
\* keeps whether there is one.
signal_handler_start_thread ==
    /\ alive
    /\ sig_pc = "thread"
    /\ exit_thread' = TRUE
    /\ sig_pc' = "idle"
    /\ UNCHANGED << requests, running, registry, styles, assets,
                    shutdown_event, lifespan_pc, alive, settings, sessions >>

\* a delayed_exit that would wait for the running handler to finish
delayed_exit_when_idle ==
    /\ alive
    /\ exit_thread
    /\ running = 0
    /\ alive' = FALSE
    /\ UNCHANGED << requests, running, registry, styles, assets,
                    shutdown_event, sig_pc, exit_thread, lifespan_pc, settings,
                    sessions >>

\* main.py:60-64: time.sleep(2) is over, os._exit(0)
delayed_exit ==
    /\ alive
    /\ exit_thread
    /\ alive' = FALSE
    /\ UNCHANGED << requests, running, registry, styles, assets,
                    shutdown_event, sig_pc, exit_thread, lifespan_pc, settings,
                    sessions >>

\* The server answers no request any more: the ASGI server sends the
\* lifespan shutdown event after it has stopped accepting connections and
\* every request it accepted has its response.
Drained == \A r \in Req : requests[r].pc \in {"new", "done"}

\* main.py:312-314: the server leaves the lifespan context, which it does
\* once it is drained
lifespan_shutdown ==
    /\ MainThread(0)
    /\ lifespan_pc = "serving"
    /\ Drained
    /\ shutdown_event' = EventSet(shutdown_event)
    /\ lifespan_pc' = "sleeping"
    /\ UNCHANGED << requests, running, registry, styles, assets,
                    sig_pc, exit_thread, alive, settings, sessions >>

\* main.py:317-318: asyncio.sleep(1) is over, the server process ends
lifespan_complete ==
    /\ MainThread(0)
    /\ lifespan_pc = "sleeping"
    /\ lifespan_pc' = "complete"
    /\ alive' = FALSE
    /\ UNCHANGED << requests, running, registry, styles, assets,
                    shutdown_event, sig_pc, exit_thread, settings, sessions >>

(* --------------------------- specification ---------------------------- *)
\* every step but the arrival of a request
Serve ==
    \/ \E r \in Req : health_check(r)
    \/ \E r \in Req : root(r)
    \/ \E r \in Req : get_voices(r)
    \/ \E r \in Req : get_languages(r)
    \/ \E r \in Req : text_to_speech_enter(r)
    \/ \E r \in Req : validate_model(r)
    \/ \E r \in Req : validate_format(r)
    \/ \E r \in Req : validate_voice(r)
    \/ \E r \in Req : get_kokoro_model(r)
    \/ \E r \in Req : kokoro_lock_acquire(r)
    \/ \E r \in Req : kokoro_recheck(r)
    \/ \E r \in Req : find_model_files(r)
    \/ \E r \in Req : kokoro_construct(r)
    \/ \E r \in Req : patch_kokoro_float_inputs(r)
    \/ \E r \in Req : get_supertonic_model(r)
    \/ \E r \in Req : supertonic_lock_acquire(r)
    \/ \E r \in Req : supertonic_recheck(r)
    \/ \E r \in Req : download_supertonic_models(r)
    \/ \E r \in Req : supertonic_construct(r)
    \/ \E r \in Req : second_shutdown_check(r)
    \/ \E r \in Req : get_supertonic_voice_style(r)
    \/ \E r \in Req : synthesize(r)
    \/ \E r \in Req : respond_wav(r)
    \/ signal_handler
    \/ signal_handler_start_thread
    \/ delayed_exit
    \/ lifespan_shutdown
    \/ lifespan_complete

Next ==
    \/ \E r \in Req : shutdown_middleware(r)
    \/ Serve

Spec == Init /\ [][Next]_vars

\* the service under the requests of FieldInputs and any environment
NextFields ==
    \/ \E r \in Req : shutdown_middleware_fields(r)
    \/ Serve

SpecFields == InitFields /\ [][NextFields]_vars

\* the service under one request of VoiceProbes
NextVoices ==
    \/ \E r \in Req : shutdown_middleware_voices(r)
    \/ Serve

SpecVoices == Init /\ [][NextVoices]_vars

\* Samples an engine can return, in quarters: inside [-1, 1], just outside,
\* where float32 rounds the product (129.25) and where the product passes
\* 32 bits (70000).
Samples == {0, 2, -2, 3, -3, 4, -4, 5, -5, 8, 517, 280000, -280000}

MaxSamples == 2

\* speech requests to kokoro whose text gives up to MaxSamples of Samples
WavProbes ==
    {[endpoint |-> "speech", model |-> "kokoro", voice |-> "af_heart",
      response_format |-> "wav", input |-> input_min_length,
      speed |-> speed_default, audio |-> a] :
        a \in UNION {[1..k -> Samples] : k \in 1..MaxSamples}}

\* one request of WavProbes
shutdown_middleware_wav(r) == r = 1 /\ Gate(r, WavProbes)

\* text_to_speech for kokoro under one request of WavProbes
NextWav ==
    \/ \E r \in Req : shutdown_middleware_wav(r)
    \/ \E r \in Req : text_to_speech_enter(r)
    \/ \E r \in Req : validate_model(r)
    \/ \E r \in Req : validate_format(r)
    \/ \E r \in Req : validate_voice(r)
    \/ \E r \in Req : get_kokoro_model(r)
    \/ \E r \in Req : kokoro_lock_acquire(r)
    \/ \E r \in Req : kokoro_recheck(r)
    \/ \E r \in Req : find_model_files(r)
    \/ \E r \in Req : kokoro_construct(r)
    \/ \E r \in Req : patch_kokoro_float_inputs(r)
    \/ \E r \in Req : second_shutdown_check(r)
    \/ \E r \in Req : synthesize(r)
    \/ \E r \in Req : respond_wav(r)

SpecWav == Init /\ [][NextWav]_vars

\* one plain speech request to kokoro
KokoroSpeech ==
    {[endpoint |-> "speech", model |-> "kokoro", voice |-> "af_heart",
      response_format |-> "wav", input |-> input_min_length,
      speed |-> speed_default, audio |-> PlainAudio]}

shutdown_middleware_kokoro(r) == r = 1 /\ Gate(r, KokoroSpeech)

\* The state after the import of main.py for a value of TTS_MODEL_FILE, the
\* providers of the onnxruntime build and the files on the disk.
StartUp(model_file, providers, listing) ==
    /\ requests = [r \in Req |-> NoRequest]
    /\ running = 0
    /\ kokoro_model = 0
    /\ kokoro_patched = FALSE
    /\ supertonic_model = 0
    /\ kokoro_model_lock = 0
    /\ supertonic_model_lock = 0
    /\ shutdown_event = FALSE
    /\ supertonic_voice_styles = [v \in StyleKeys |-> 0]
    /\ voice_style_cache = [v \in VoiceSet |-> 0]
    /\ style_loads = [v \in VoiceSet |-> 0]
    /\ kokoro_files = listing
    /\ supertonic_files = TRUE
    /\ created = [b \in Range(ALLOWED_MODEL_FAMILIES) |-> 0]
    /\ sig_pc = "idle"
    /\ exit_thread = FALSE
    /\ lifespan_pc = "serving"
    /\ alive = TRUE
    /\ TTS_DEFAULT_MODEL = "unset"
    /\ DEFAULT_TTS_MODEL = default_tts_model(TTS_DEFAULT_MODEL)
    /\ TTS_MODEL_FILE = model_file
    /\ available_providers = providers
    /\ session_providers = << >>

\* What get_available_providers can return: the providers the build has, in
\* priority order.  Every build has the CPU provider, which is the last.
AvailableLists ==
    {SelectSeq(provider_priority, LAMBDA p : p \in built \cup {"CPUExecutionProvider"}) :
        built \in SUBSET Range(provider_priority)}

InitProviders ==
    \E providers \in AvailableLists :
        \E listing \in {InPlace, Nowhere} : StartUp("", providers, listing)

\* get_kokoro_model under one request, for every list of AvailableLists
NextProviders ==
    \/ \E r \in Req : shutdown_middleware_kokoro(r)
    \/ \E r \in Req : text_to_speech_enter(r)
    \/ \E r \in Req : validate_model(r)
    \/ \E r \in Req : validate_format(r)
    \/ \E r \in Req : validate_voice(r)
    \/ \E r \in Req : get_kokoro_model(r)
    \/ \E r \in Req : kokoro_lock_acquire(r)
    \/ \E r \in Req : kokoro_recheck(r)
    \/ \E r \in Req : find_model_files(r)
    \/ \E r \in Req : kokoro_construct(r)
    \/ \E r \in Req : patch_kokoro_float_inputs(r)

SpecProviders == InitProviders /\ [][NextProviders]_vars

\* the values the deployment may give TTS_MODEL_FILE ("" is not set)
ModelFileInputs == {"", " ", "kokoro.onnx", "/opt/models/kokoro.onnx"}

\* the files a searched directory may hold
FileNames == {"model.onnx", "kokoro.onnx", "voices-v1.0.bin", "voices.bin"}

InitFiles ==
    \E model_file \in ModelFileInputs :
        \E listing \in [Range(search_dirs) -> SUBSET FileNames] :
            StartUp(model_file, << "CPUExecutionProvider" >>, listing)

\* find_model_files under one request, for every listing and TTS_MODEL_FILE
NextFiles ==
    \/ \E r \in Req : shutdown_middleware_kokoro(r)
    \/ \E r \in Req : text_to_speech_enter(r)
    \/ \E r \in Req : validate_model(r)
    \/ \E r \in Req : validate_format(r)
    \/ \E r \in Req : validate_voice(r)
    \/ \E r \in Req : get_kokoro_model(r)
    \/ \E r \in Req : kokoro_lock_acquire(r)
    \/ \E r \in Req : kokoro_recheck(r)
    \/ \E r \in Req : find_model_files(r)

SpecFiles == InitFiles /\ [][NextFiles]_vars

\* The delayed_exit thread is an operating-system thread of its own and
\* signal_handler is straight-line code on the main thread: both go on.
SpecLive ==
    Spec /\ WF_vars(delayed_exit) /\ WF_vars(signal_handler_start_thread)

(* ------------------------------ properties ---------------------------- *)
Backends == Range(ALLOWED_MODEL_FAMILIES)

\* the instance slot of a backend
Slot(b) == IF b = "kokoro" THEN kokoro_model ELSE supertonic_model

\* voice is the name of an entry of the catalog of model
InCatalog(voice, model) ==
    \E i \in DOMAIN get_voices_by_model(model) :
        get_voices_by_model(model)[i].name = voice

\* r is between the first statement of get_*_model and its response
PastValidation(r) ==
    \/ requests[r].pc \in {"get", "lock", "lock_wait", "recheck", "find",
                           "construct", "patch", "check2", "style", "synth",
                           "encode", "hung"}
    \/ requests[r].tts_model # 0

Moved(r) == requests'[r].pc # requests[r].pc

\* C1: for each backend the engine is constructed at most once, exactly once
\* when its slot is filled, and every call of get_kokoro_model /
\* get_supertonic_model that returned, returned the one instance of the slot.
C1_ConstructedOnce ==
    /\ \A b \in Backends :
          /\ created[b] <= 1
          /\ Slot(b) # 0 => created[b] = 1
    /\ \A r \in Req :
          requests[r].tts_model # 0 =>
              requests[r].tts_model = Slot(requests[r].model)
    /\ \A r1, r2 \in Req :
          /\ requests[r1].model = requests[r2].model
          /\ requests[r1].tts_model # 0
          /\ requests[r2].tts_model # 0
          => requests[r1].tts_model = requests[r2].tts_model

\* two requests of one backend that both came back from get_*_model with an
\* engine, of which one was built
C1_Witness ==
    \E r1, r2 \in Req :
        /\ r1 # r2
        /\ requests[r1].model = requests[r2].model
        /\ requests[r1].tts_model # 0
        /\ requests[r2].tts_model # 0
        /\ created[requests[r1].model] = 1

\* C2: a speech request reaches get_*_model only with an allowed model, the
\* wav format and a voice of its model's catalog; the step that checks a voice
\* outside the catalog answers 400, and no step of the handler of such a
\* request changes a slot, a lock or a construction count.
C2_ValidatedBeforeEngine ==
    /\ [](\A r \in Req :
            PastValidation(r) =>
                /\ requests[r].model \in Backends
                /\ requests[r].response_format = "wav"
                /\ InCatalog(requests[r].voice, requests[r].model))
    /\ [][\A r \in Req :
            /\ requests[r].endpoint = "speech"
            /\ ~InCatalog(requests[r].voice, requests[r].model)
            =>
            /\ running = r => UNCHANGED registry
            /\ requests[r].pc = "voice" /\ Moved(r) =>
                   requests'[r].pc = "done" /\ requests'[r].status = 400]_vars

C2_Witness ==
    \E r \in Req :
        /\ requests[r].endpoint = "speech"
        /\ requests[r].model \in Backends
        /\ requests[r].response_format = "wav"
        /\ ~InCatalog(requests[r].voice, requests[r].model)
        /\ requests[r].pc = "done"
        /\ requests[r].status = 400
        /\ \A b \in Backends : created[b] = 0 /\ Slot(b) = 0

C5_ShutdownMonotonic == [][shutdown_event => shutdown_event']_vars

\* both setters have run: the signal handler and the lifespan shutdown path
C5_Witness ==
    /\ shutdown_event
    /\ exit_thread
    /\ lifespan_pc = "sleeping"
    /\ alive

\* C6: the second check comes after the engine was returned and before style
\* resolution and synthesis; with shutdown_event set it answers 503 and leaves
\* the style caches alone, and only a check that found it clear leads on.
C6_SecondCheckpoint ==
    /\ [](\A r \in Req :
            requests[r].pc \in {"check2", "style", "synth", "encode", "hung"} =>
                requests[r].tts_model # 0)
    /\ [][\A r \in Req :
            /\ requests[r].pc = "check2" /\ Moved(r) =>
                  IF shutdown_event
                  THEN /\ requests'[r].pc = "done"
                       /\ requests'[r].status = 503
                       /\ UNCHANGED styles
                  ELSE requests'[r].pc \in {"style", "synth"}
            /\ requests'[r].pc = "style" /\ Moved(r) =>
                  requests[r].pc = "check2" /\ ~shutdown_event
            /\ requests'[r].pc = "synth" /\ Moved(r) =>
                  \/ requests[r].pc = "check2" /\ ~shutdown_event
                  \/ requests[r].pc = "style"]_vars

\* a request that had its engine and was rejected at the second check
C6_Witness ==
    \E r \in Req :
        /\ requests[r].pc = "done"
        /\ requests[r].status = 503
        /\ requests[r].tts_model # 0

\* C7: when get_kokoro_model / get_supertonic_model raises, the slot of the
\* backend is empty afterwards, and a call that finds the slot empty runs the
\* whole construction, asset resolution first.
C7_FailureNotCached ==
    [][\A r \in Req :
         /\ requests[r].pc \in {"find", "construct", "patch"} /\ Moved(r)
            /\ requests'[r].status = 500
            => Slot(requests[r].model)' = 0
         /\ requests[r].pc = "recheck" /\ Moved(r) /\ Slot(requests[r].model) = 0
            => requests'[r].pc = "find"]_vars

\* C8: whenever a caller reads a non-empty slot, on the fast path or under
\* the lock, and whenever it has been handed an engine, every construction
\* step of that engine is complete (for kokoro the float-input patch too).
C8_NoPartialInstanceSeen ==
    \A r \in Req :
        /\ requests[r].model = "kokoro"
        /\ \/ requests[r].pc \in {"get", "recheck"} /\ kokoro_model # 0
           \/ requests[r].tts_model # 0
        => kokoro_patched

\* C9: a slot that holds an engine holds the same engine after every step.
C9_SlotNeverReplaced ==
    [][/\ kokoro_model # 0 => kokoro_model' = kokoro_model
       /\ supertonic_model # 0 => supertonic_model' = supertonic_model]_vars

\* both slots filled, and since then a failed request, a rejected one and a
\* shutdown
C9_Witness ==
    /\ kokoro_model # 0
    /\ supertonic_model # 0
    /\ shutdown_event
    /\ \E r \in Req : requests[r].pc = "done" /\ requests[r].status \in {500, 503}

Progress(r) ==
    ENABLED (\/ health_check(r)
             \/ root(r)
             \/ get_voices(r)
             \/ get_languages(r)
             \/ text_to_speech_enter(r))

\* the main thread is inside a call made by the handler of r
InsideCall(r, labels) ==
    /\ alive
    /\ sig_pc = "idle"
    /\ lifespan_pc = "serving"
    /\ requests[r].pc \in labels

\* C11 as stated: while a request is inside its synthesis call
\* (tts_model.create / tts_model.synthesize), the server still accepts a new
\* request and still takes a request that waits for its handler a step on.
C11_ServesDuringSynthesis ==
    \A r, o \in Req :
        InsideCall(r, {"synth", "hung"}) /\ o # r =>
            /\ requests[o].pc = "call" => Progress(o)
            /\ requests[o].pc = "new" /\ (o = 1 \/ requests[o - 1].pc # "new") =>
                   ENABLED shutdown_middleware(o)

\* the positions of get_kokoro_model / get_supertonic_model under the lock
\* where the engine is fetched and built
Constructing == {"find", "construct", "patch"}

\* C12 as stated: the construction of one backend's engine is done by one
\* request at a time, and while it goes on a speech request for the other
\* backend is not held up: one that waits for its handler can enter it.
C12_SerializedPerBackend ==
    /\ \A r, o \in Req :
           /\ r # o
           /\ requests[r].model = requests[o].model
           /\ requests[r].pc \in Constructing
           => requests[o].pc \notin Constructing
    /\ \A r, o \in Req :
           /\ InsideCall(r, Constructing)
           /\ requests[o].pc = "call"
           /\ requests[o].endpoint = "speech"
           /\ requests[o].model \in Backends \ {requests[r].model}
           => Progress(o)

\* C13 as stated: a speech request whose input is empty or longer than 4096
\* characters, or whose speed is outside [0.5, 2.0], never reaches an engine
\* and is answered 400 (503 when the middleware gate turns it away).
C13_BadBodyRejected400 ==
    \A r \in Req :
        /\ requests[r].endpoint = "speech"
        /\ ~FieldsValidate(requests[r])
        => /\ ~PastValidation(r)
           /\ requests[r].pc = "done" => requests[r].status \in {400, 503}

\* C14: a speech request gets to the format check, the voice check and
\* get_*_model only with a model of ALLOWED_MODEL_FAMILIES; for a model
\* outside of it the model check of text_to_speech, get_voices and
\* get_languages answer 400, and no step of the handler changes an engine
\* slot, a lock, a construction count, a style cache or an asset.
C14_UnknownModel400 ==
    /\ [](\A r \in Req :
            requests[r].pc \in {"format", "voice"} \/ PastValidation(r) =>
                requests[r].model \in Backends)
    /\ [][\A r \in Req :
            requests[r].model \notin Backends /\ Moved(r) =>
                /\ UNCHANGED << registry, styles, assets >>
                /\ \/ requests[r].pc = "model"
                   \/ /\ requests[r].pc = "call"
                      /\ requests[r].endpoint \in {"voices", "languages"}
                   => requests'[r].pc = "done" /\ requests'[r].status = 400]_vars

\* a speech request and a listing request with a model outside the families,
\* both answered 400 with no engine built
C14_Witness ==
    \E r1, r2 \in Req :
        /\ requests[r1].endpoint = "speech"
        /\ requests[r2].endpoint \in {"voices", "languages"}
        /\ \A r \in {r1, r2} :
              /\ requests[r].model \notin Backends
              /\ requests[r].pc = "done"
              /\ requests[r].status = 400
        /\ \A b \in Backends : created[b] = 0 /\ Slot(b) = 0

\* C15 as stated: a speech request that leaves `voice` out is served with
\* the default voice of its backend, get_default_voice(model), and so is not
\* turned away by the voice check.
C15_DefaultVoiceOfBackend ==
    \A r \in Req :
        /\ requests[r].endpoint = "speech"
        /\ "voice" \in requests[r].omitted
        => /\ requests[r].voice = get_default_voice(requests[r].model)
           /\ requests[r].pc = "done" => requests[r].status # 400

\* r asked with valid fields for a backend and got as far as get_*_model
Asked(r, b) ==
    /\ requests[r].endpoint = "speech"
    /\ requests[r].model = b
    /\ InCatalog(requests[r].voice, b)
    /\ PastValidation(r) \/ requests[r].pc = "done"

\* C16: an engine exists or was built only once a speech request asked for
\* its backend, so none is built by the start-up; status 500 is given only to
\* a speech request that asked for a backend and got no engine from
\* get_*_model or had one whose call failed; /health and / are answered 200
\* and the listings 200 or 400 (503 at the gate) whatever became of the
\* engines.
C16_FailureStaysWithBackend ==
    /\ \A b \in Backends :
           created[b] > 0 \/ Slot(b) # 0 => \E r \in Req : Asked(r, b)
    /\ \A r \in Req :
           requests[r].pc = "done" =>
              /\ requests[r].status = 500 =>
                     Asked(r, requests[r].model) /\ requests[r].model \in Backends
              /\ requests[r].endpoint \in {"health", "root"} =>
                     requests[r].status \in {200, 503}
              /\ requests[r].endpoint \in {"voices", "languages"} =>
                     requests[r].status \in
                        {IF requests[r].model \in Backends THEN 200 ELSE 400, 503}

\* the kokoro engine could not be had, and a request for supertonic was
\* served all the same
C16_Witness ==
    \E r1, r2 \in Req :
        /\ requests[r1].model = "kokoro"
        /\ requests[r1].pc = "done"
        /\ requests[r1].status = 500
        /\ kokoro_model = 0
        /\ ~(KokoroFiles \subseteq kokoro_files[kokoro_dir])
        /\ requests[r2].model = "supertonic"
        /\ requests[r2].pc = "done"
        /\ requests[r2].status = 200

\* C17: for the voice s and the model B of every request, is_valid_voice(s, B)
\* is true exactly when s is the name of an entry of get_voices_by_model(B),
\* and false when B is no allowed family; a speech request is past the voice
\* check with a voice of its model's catalog and is answered 400 for an
\* allowed model (wav is the only format sent) with a voice outside of it.
C17_ValidVoiceIffInCatalog ==
    \A r \in Req :
        LET s == requests[r].voice
            m == requests[r].model
            named == \E i \in DOMAIN get_voices_by_model(m) :
                         get_voices_by_model(m)[i].name = s
        IN  /\ is_valid_voice(s, m) <=> named
            /\ m \notin Backends => ~is_valid_voice(s, m)
            /\ PastValidation(r) => named
            /\ /\ requests[r].pc = "done"
               /\ requests[r].endpoint = "speech"
               /\ requests[r].status = 400
               /\ m \in Backends
               => ~named

\* the voice check turned a voice of the kokoro catalog away for supertonic
C17_Witness ==
    \E r \in Req :
        /\ requests[r].model = "supertonic"
        /\ requests[r].voice \in NamesOf(KOKORO_VOICES)
        /\ requests[r].pc = "done"
        /\ requests[r].status = 400

\* C18: an entry of supertonic_voice_styles or of the engine's
\* _voice_style_cache that holds a style handle holds the same handle after
\* every step of a request, of the signal handler, of the exit thread and of
\* lifespan.
C18_StyleCacheWriteOnce ==
    [][/\ \A v \in StyleKeys :
             supertonic_voice_styles[v] # 0 =>
                 supertonic_voice_styles'[v] = supertonic_voice_styles[v]
       /\ \A v \in VoiceSet :
             voice_style_cache[v] # 0 =>
                 voice_style_cache'[v] = voice_style_cache[v]]_vars

\* two requests got past the style lookup of one voice, which was loaded once
C18_Witness ==
    \E r1, r2 \in Req :
        /\ r1 # r2
        /\ requests[r1].voice = requests[r2].voice
        /\ \A r \in {r1, r2} :
              /\ requests[r].model = "supertonic"
              /\ requests[r].pc \in {"synth", "encode", "done"}
              /\ requests[r].tts_model # 0
              /\ requests[r].status \in {0, 200}
        /\ supertonic_voice_styles[requests[r1].voice] = 1
        /\ style_loads[requests[r1].voice] = 1
        /\ shutdown_event

\* C19: a speech request that ends at an engine step (the fetch of the
\* files, the construction, the patch, the style lookup, the synthesis) ends
\* with 500; one that ends at the voice check ends with 400 and one that ends
\* at the second shutdown check with 503.
C19_ErrorKindsKept ==
    [][\A r \in Req :
         requests[r].pc # "done" /\ requests'[r].pc = "done" =>
            /\ requests[r].pc \in Constructing \cup {"style", "synth"} =>
                   requests'[r].status = 500
            /\ requests[r].pc = "voice" => requests'[r].status = 400
            /\ requests[r].pc = "check2" => requests'[r].status = 503]_vars

\* one request was turned away at the second shutdown check with its engine
\* in hand, another ended with 500 without one
C19_Witness ==
    \E r1, r2 \in Req :
        /\ requests[r1].pc = "done"
        /\ requests[r1].status = 503
        /\ requests[r1].tts_model # 0
        /\ requests[r2].pc = "done"
        /\ requests[r2].status = 500
        /\ requests[r2].tts_model = 0

\* C20: DEFAULT_TTS_MODEL is one of ALLOWED_MODEL_FAMILIES under every
\* environment: an allowed TTS_DEFAULT_MODEL is kept, any other value is
\* replaced by "kokoro"; so a request that leaves `model` out has an allowed
\* model and no listing turns it away with 400.
C20_DefaultModelAllowed ==
    /\ DEFAULT_TTS_MODEL \in Backends
    /\ TTS_DEFAULT_MODEL \in Backends => DEFAULT_TTS_MODEL = TTS_DEFAULT_MODEL
    /\ TTS_DEFAULT_MODEL \notin Backends \cup {"unset"} =>
           DEFAULT_TTS_MODEL = "kokoro"
    /\ \A r \in Req :
           "model" \in requests[r].omitted =>
              /\ requests[r].model \in Backends
              /\ requests[r].endpoint \in {"voices", "languages"} =>
                     requests[r].status # 400

\* under a value that is no family a listing without `model` was served
C20_Witness ==
    \E r \in Req :
        /\ TTS_DEFAULT_MODEL \notin Backends \cup {"unset"}
        /\ "model" \in requests[r].omitted
        /\ requests[r].endpoint \in {"voices", "languages"}
        /\ requests[r].model = "kokoro"
        /\ requests[r].pc = "done"
        /\ requests[r].status = 200

\* C23: a speech request moves along the dispatch order only.  It is
\* answered 200 from the encoding, which it enters from the synthesis, which
\* it enters with its engine from the second shutdown check or the style
\* lookup; it has its engine from get_*_model, which it enters from the voice
\* check, the last of the validations.  It is answered 500 only at a step
\* after the validations, its answer is 200, a rejection (400, 503) or 500,
\* and an answered request takes no further step.
C23_DispatchOrder ==
    /\ [](\A r \in Req :
            requests[r].endpoint = "speech" /\ requests[r].pc = "done" =>
                requests[r].status \in {200, 400, 503, 500})
    /\ [][\A r \in Req :
            requests'[r].endpoint = "speech" /\ Moved(r) =>
               LET from == requests[r].pc
                   to == requests'[r].pc
               IN  /\ from # "done"
                   /\ to = "model" => from = "call"
                   /\ to = "format" => from = "model"
                   /\ to = "voice" => from = "format"
                   /\ to = "get" => from = "voice"
                   /\ to \in {"lock", "lock_wait"} => from \in {"get", "lock"}
                   /\ to = "recheck" => from \in {"lock", "lock_wait"}
                   /\ to = "find" => from = "recheck"
                   /\ to = "construct" => from = "find"
                   /\ to = "patch" => from = "construct"
                   /\ to = "check2" =>
                         /\ from \in {"get", "recheck", "construct", "patch"}
                         /\ requests'[r].tts_model # 0
                   /\ to = "style" => from = "check2"
                   /\ to = "synth" =>
                         /\ from \in {"check2", "style"}
                         /\ requests[r].tts_model # 0
                   /\ to \in {"encode", "hung"} => from = "synth"
                   /\ to = "done" /\ requests'[r].status = 200 => from = "encode"
                   /\ to = "done" /\ requests'[r].status = 500 =>
                         from \in Constructing \cup {"style", "synth"}]_vars

\* one request was answered 200, one 500 with its engine in hand
C23_Witness ==
    \E r1, r2 \in Req :
        /\ requests[r1].endpoint = "speech"
        /\ requests[r1].pc = "done"
        /\ requests[r1].status = 200
        /\ requests[r2].endpoint = "speech"
        /\ requests[r2].pc = "done"
        /\ requests[r2].status = 500
        /\ requests[r2].tts_model # 0

\* the positions of text_to_speech after its second shutdown check
PastLastCheck == {"style", "synth", "encode"}

\* C24: a request past the second shutdown check is never answered 503: with
\* shutdown_event set or not, its style lookup goes on to the synthesis or
\* fails with 500, its synthesis goes on to the encoding, fails with 500 or
\* does not return, and its encoding is answered 200; and while the process
\* lives and the main thread is its handler's, the next of these steps can
\* be taken.
C24_NoCancellation ==
    /\ [](\A r \in Req :
            /\ requests[r].pc \in PastLastCheck
            /\ alive
            /\ sig_pc = "idle"
            => ENABLED (\/ get_supertonic_voice_style(r)
                        \/ synthesize(r)
                        \/ respond_wav(r)))
    /\ [][\A r \in Req :
            requests[r].pc \in PastLastCheck /\ Moved(r) =>
               /\ requests'[r].status \in {0, 200, 500}
               /\ requests[r].pc = "style" =>
                     requests'[r].pc = "synth" \/ requests'[r].status = 500
               /\ requests[r].pc = "synth" =>
                     requests'[r].pc \in {"encode", "hung"}
                        \/ requests'[r].status = 500
               /\ requests[r].pc = "encode" => requests'[r].status = 200]_vars

\* shutdown_event was set while a request was past the second check, and the
\* request has come to its encoding
C24_Witness ==
    \E r \in Req :
        /\ shutdown_event
        /\ exit_thread
        /\ alive
        /\ requests[r].pc = "encode"

\* the handler of r runs, for a speech request with model b that is past the
\* validations
ServedFor(r, b) ==
    /\ running = r
    /\ requests[r].endpoint = "speech"
    /\ requests[r].model = b
    /\ PastValidation(r)

\* C27: a step that changes the instance slot of a backend is a step of the
\* handler of a speech request for that backend that is past the validations,
\* and a step that changes a voice-style cache is one of such a request for
\* supertonic; so no other route, no rejected request and no request for the
\* other backend changes them.
C27_SlotChangedByItsRequests ==
    [][/\ \A b \in Backends :
             Slot(b)' # Slot(b) => \E r \in Req : ServedFor(r, b)
       /\ styles' # styles => \E r \in Req : ServedFor(r, "supertonic")]_vars

\* both engines and a style are there, each made by a request for its backend
C27_Witness ==
    /\ kokoro_model # 0
    /\ supertonic_model # 0
    /\ \E v \in VoiceSet : supertonic_voice_styles[v] # 0

\* the construction lock of a backend
Lock(b) == IF b = "kokoro" THEN kokoro_model_lock ELSE supertonic_model_lock

\* C28: the construction lock of a backend is held only by a request for that
\* backend that is inside the `async with` block of get_*_model, so it is free
\* once that call has returned or raised; and a request that comes to the
\* lock finds it free.
C28_LockFreeAfterFailure ==
    /\ \A b \in Backends :
          Lock(b) # 0 =>
             /\ requests[Lock(b)].model = b
             /\ requests[Lock(b)].pc \in {"recheck"} \cup Constructing
    /\ \A r \in Req :
          requests[r].pc = "lock" => Lock(requests[r].model) = 0

\* a construction raised, and a later request for the same backend holds the
\* lock
C28_Witness ==
    \E r1, r2 \in Req :
        /\ requests[r1].model = requests[r2].model
        /\ requests[r1].pc = "done"
        /\ requests[r1].status = 500
        /\ requests[r1].tts_model = 0
        /\ Lock(requests[r2].model) = r2

\* C29: a voice that supertonic_voice_styles holds a style for is one of
\* VOICE_LIST and has the same handle in the engine's _voice_style_cache, and
\* the other way round; the style of a voice has been loaded at most once, and
\* where no load succeeded neither cache holds anything.
C29_StyleCachesAgree ==
    /\ \A v \in StyleKeys :
          supertonic_voice_styles[v] # 0 =>
             /\ v \in Range(VOICE_LIST)
             /\ supertonic_voice_styles[v] = voice_style_cache[v]
    /\ \A v \in Range(VOICE_LIST) :
          /\ style_loads[v] <= 1
          /\ voice_style_cache[v] = style_loads[v]
          /\ supertonic_voice_styles[v] = style_loads[v]

\* the load of a style failed for a request that had its engine, and neither
\* cache holds anything for the voice
C29_Witness ==
    \E r \in Req :
        /\ requests[r].model = "supertonic"
        /\ requests[r].pc = "done"
        /\ requests[r].status = 500
        /\ requests[r].tts_model # 0
        /\ style_loads[requests[r].voice] = 0
        /\ supertonic_voice_styles[requests[r].voice] = 0
        /\ voice_style_cache[requests[r].voice] = 0

\* C30: the names of SUPERTONIC_VOICES are the voices of VOICE_LIST, and a
\* supertonic request that is at or past its style lookup has a voice of
\* VOICE_LIST, so the lookup does not raise for an unknown voice.
C30_CatalogIsVoiceList ==
    /\ NamesOf(SUPERTONIC_VOICES) = Range(VOICE_LIST)
    /\ \A r \in Req :
          /\ requests[r].model = "supertonic"
          /\ PastValidation(r)
          => requests[r].voice \in Range(VOICE_LIST)

\* a female voice of the catalog got through its style lookup
C30_Witness ==
    \E r \in Req :
        /\ requests[r].model = "supertonic"
        /\ requests[r].voice = "F5"
        /\ requests[r].pc = "synth"
        /\ supertonic_voice_styles["F5"] # 0

\* C22: the answer of get_languages for an allowed model lists language codes
\* in strictly ascending order, so none twice, and the codes listed are the
\* `language` values of the entries of the model's voice catalog.
C22_LanguagesSortedDistinct ==
    \A r \in Req :
        /\ requests[r].endpoint = "languages"
        /\ requests[r].pc = "done"
        /\ requests[r].status = 200
        => LET codes == requests[r].body
               catalog == get_voices_by_model(requests[r].model)
           IN  /\ requests[r].model \in Backends
               /\ \A i \in 1..(Len(codes) - 1) : str_lt(codes[i], codes[i + 1])
               /\ Range(codes) = {catalog[i].language : i \in DOMAIN catalog}

\* the nine languages of the kokoro catalog were listed
C22_Witness ==
    \E r \in Req :
        /\ requests[r].endpoint = "languages"
        /\ requests[r].model = "kokoro"
        /\ requests[r].status = 200
        /\ Len(requests[r].body) = 9
        /\ requests[r].body[1] = "de"
        /\ requests[r].body[9] = "zh"

\* the speech requests that were answered with audio
Encoded == {r \in Req : /\ requests[r].endpoint = "speech"
                        /\ requests[r].pc = "done"
                        /\ requests[r].status = 200}

\* v is n * 32767 / 4 truncated toward zero
TruncatedScaled(n, v) ==
    IF n >= 0 THEN 4 * v <= n * scale /\ n * scale < 4 * (v + 1)
    ELSE 4 * v >= n * scale /\ n * scale > 4 * (v - 1)

\* float32 holds n * 32767 / 4 exactly: the product has at most 24 bits
ExactInFloat32(n) == Abs(n) < 512

\* v is the float32 product of the sample n, truncated toward zero, taken
\* modulo 2^16 into the signed 16-bit range
Wrapped(n, v) ==
    /\ v \in -32768..32767
    /\ IF ExactInFloat32(n)
       THEN \E k \in -2..2 : TruncatedScaled(n, v + k * half_word)
       ELSE LET x == float32_product(n)
            IN  (v - (IF n < 0 THEN -x.lo ELSE x.lo)) % half_word = 0

\* C21 as stated: every sample s of the engine's audio becomes s * 32767
\* truncated toward zero, which lies in [-32767, 32767] for s in [-1, 1] and
\* wraps around modulo 2^16 for every s outside that range.
C21_WrapsForEverySample ==
    \A r \in Encoded :
        /\ Len(requests[r].body) = Len(requests[r].audio)
        /\ \A i \in DOMAIN requests[r].audio :
              LET n == requests[r].audio[i]
                  v == requests[r].body[i]
              IN  IF Abs(n) <= 4
                  THEN TruncatedScaled(n, v) /\ v \in -32767..32767
                  ELSE Wrapped(n, v)

\* C21 (amended): every sample s of the engine's audio whose float32 product
\* s * 32767 fits a signed 32-bit integer becomes that product truncated
\* toward zero: in [-32767, 32767] for s in [-1, 1], wrapped around modulo
\* 2^16 instead of saturated for s outside that range.  The WAV data has one
\* 16-bit sample for every sample of the audio.
C21_WrapsWithin32Bits ==
    \A r \in Encoded :
        /\ Len(requests[r].body) = Len(requests[r].audio)
        /\ \A i \in DOMAIN requests[r].audio :
              LET n == requests[r].audio[i]
                  v == requests[r].body[i]
              IN  /\ Abs(n) <= 4 => TruncatedScaled(n, v) /\ v \in -32767..32767
                  /\ Abs(n) > 4 /\ fits_int32(n) => Wrapped(n, v)

\* the samples 1.25 and -0.75 were encoded: the first wrapped to a negative
\* value, the second was truncated toward zero
C21_Witness ==
    \E r \in Encoded :
        /\ requests[r].audio = << 5, -3 >>
        /\ requests[r].body = << -24578, -24575 >>

\* C25: the providers given to the kokoro inference session are the
\* available providers without TensorrtExecutionProvider, in their order;
\* CUDAExecutionProvider, when available, carries cudnn_conv_algo_search, no
\* other provider carries options, and the last entry is the CPU provider.
C25_ProvidersSelected ==
    /\ kokoro_model # 0 => session_providers # << >>
    /\ session_providers # << >> =>
          /\ \A i \in DOMAIN session_providers :
                /\ session_providers[i].name # "TensorrtExecutionProvider"
                /\ session_providers[i].options =
                      IF session_providers[i].name = "CUDAExecutionProvider"
                      THEN {<< "cudnn_conv_algo_search", "EXHAUSTIVE" >>}
                      ELSE {}
          /\ "CUDAExecutionProvider" \in Range(available_providers) =>
                \E i \in DOMAIN session_providers :
                    session_providers[i].name = "CUDAExecutionProvider"
          /\ session_providers[Len(session_providers)].name = "CPUExecutionProvider"
          /\ [i \in DOMAIN session_providers |-> session_providers[i].name] =
                SelectSeq(available_providers,
                          LAMBDA p : p # "TensorrtExecutionProvider")

\* a build with TensorRT and CUDA: the session got CUDA with its tuning and
\* the CPU provider
C25_Witness ==
    /\ kokoro_model # 0
    /\ available_providers = << "TensorrtExecutionProvider",
                                "CUDAExecutionProvider", "CPUExecutionProvider" >>
    /\ session_providers =
          << [name |-> "CUDAExecutionProvider",
              options |-> {<< "cudnn_conv_algo_search", "EXHAUSTIVE" >>}],
             [name |-> "CPUExecutionProvider", options |-> {}] >>

\* find_model_files returns or raises for request r in this step
FindStep(r) == requests[r].pc = "find" /\ requests'[r].pc # "find"

\* the positions of the directories of dirs that list one of the patterns
Listing(dirs, patterns) ==
    {i \in DOMAIN dirs : Range(patterns) \cap kokoro_files[dirs[i]] # {}}

\* The step of find_model_files for request r, when the model is looked for
\* in model_dirs: a file some directory lists is taken from the first such
\* directory and is not downloaded; a file no directory lists is downloaded
\* into kokoro_dir; the call returns only with both files on the disk, and
\* when it raises the engine is not constructed.
Resolution(r, model_dirs) ==
    LET requested_model == requested_model_of(TTS_MODEL_FILE)
        patterns == IF TTS_MODEL_FILE # "" THEN << requested_model >>
                    ELSE model_patterns
        default_model == IF requested_model # "" THEN requested_model
                         ELSE "model.onnx"
        models == Listing(model_dirs, patterns)
        voices == Listing(search_dirs, voice_patterns)
        added == kokoro_files'[kokoro_dir] \ kokoro_files[kokoro_dir]
        model == requests'[r].files.model
        voice == requests'[r].files.voices
        first(hits) == CHOOSE a \in hits : \A b \in hits : a <= b
    IN  /\ \A d \in Range(search_dirs) \ {kokoro_dir} :
              kokoro_files'[d] = kokoro_files[d]
        /\ added \subseteq {default_model, "voices-v1.0.bin"}
        /\ models # {} => default_model \notin added
        /\ voices # {} => "voices-v1.0.bin" \notin added
        /\ requests'[r].pc = "construct" =>
              /\ model.name \in kokoro_files'[model.dir]
              /\ voice.name \in kokoro_files'[voice.dir]
              /\ IF models # {}
                 THEN /\ model.dir = model_dirs[first(models)]
                      /\ model.name \in Range(patterns) \cap kokoro_files[model.dir]
                 ELSE model = [dir |-> kokoro_dir, name |-> default_model]
              /\ IF voices # {}
                 THEN /\ voice.dir = search_dirs[first(voices)]
                      /\ voice.name \in Range(voice_patterns) \cap kokoro_files[voice.dir]
                 ELSE voice = [dir |-> kokoro_dir, name |-> "voices-v1.0.bin"]
        /\ requests'[r].pc # "construct" =>
              /\ models = {} \/ voices = {}
              /\ requests'[r].pc = "done"
              /\ requests'[r].status = 500
              /\ kokoro_model' = 0
              /\ kokoro_model_lock' = 0

====
